---- MODULE Spec2Model ----
(***************************************************************************)
(* Model of pkg/block/block.go: the block metadata file (WriteMetaFile,    *)
(* ReadMetaFile, renameFile, Finalize) and the transfer of a block         *)
(* directory to and from a bucket (Upload, cleanUp, Delete, Download,      *)
(* DownloadMeta).                                                          *)
(*                                                                         *)
(* A file's content is a sequence of JSON tokens; a token is a sequence of *)
(* one-character strings whose first element names the token's kind.       *)
(***************************************************************************)
EXTENDS Integers, Sequences, FiniteSets, TLC

(***************************************************************************)
(* Bounds of the model.                                                    *)
(***************************************************************************)
\* Largest time / resolution value a metadata input carries.
MaxNum == 12
\* Number of WriteMetaFile calls of a run.
MaxWrites == 1
\* Number of ReadMetaFile calls of a run.
MaxReads == 2
\* Number of chunk files a local block directory holds at most.
MaxChunks == 2
\* Number of Upload calls of a run.
MaxUploads == 2

(***************************************************************************)
(* File and directory names (block.go, const block).                       *)
(***************************************************************************)
MetaFilename == "meta.json"
IndexFilename == "index"
ChunksDirname == "chunks"
DebugMetas == "debug/metas"

(***************************************************************************)
(* Characters.  BadByte stands for a byte sequence that is not valid       *)
(* UTF-8; encoding/json writes the replacement character in its place.     *)
(***************************************************************************)
BadByte == "xFF"
ReplacementChar == "uFFFD"

(***************************************************************************)
(* type Meta: Version, the embedded tsdb.BlockMeta (here its MinTime and   *)
(* its Compaction.Level) and Thanos {Labels, Downsample.Resolution}.       *)
(* A Labels map is [isNil, kv]: kv is the set of its <<name, value>>       *)
(* entries, a value being a sequence of characters.                        *)
(***************************************************************************)
NilLabels == [isNil |-> TRUE, kv |-> {}]

MakeLabels(kv) == [isNil |-> FALSE, kv |-> kv]

\* Label names in the order encoding/json writes map keys (sorted).
LabelNames == <<"region", "replica">>

LabelMaps ==
    { NilLabels,
      MakeLabels({}),
      MakeLabels({<<"replica", <<"0">>>>}),
      MakeLabels({<<"replica", <<"0", BadByte>>>>}),
      MakeLabels({<<"region", <<"e", "u">>>>, <<"replica", <<"1">>>>}) }

Meta ==
    [ Version    : {1, 2},
      MinTime    : {-1},
      Level      : {1},
      Labels     : LabelMaps,
      Resolution : {0, MaxNum} ]

\* The metadata values the callers pass.
MetaInputs ==
    { m \in Meta : \/ m.Version = 1 /\ m.Resolution = MaxNum
                   \/ m.Version = 2 /\ m.Resolution = 0
                                    /\ m.Labels = MakeLabels({<<"replica", <<"0">>>>}) }

\* The zero value of Meta (var m Meta).
ZeroMeta ==
    [ Version |-> 0, MinTime |-> 0, Level |-> 0, Labels |-> NilLabels,
      Resolution |-> 0 ]

\* len(meta.Thanos.Labels)
LabelsLen(l) == Cardinality(l.kv)

(***************************************************************************)
(* encoding/json, writing.                                                 *)
(***************************************************************************)
LB == <<"{">>
RB == <<"}">>
NullTok == <<"null">>
KeyTok(k) == <<"k", k>>

DigitChars == <<"0", "1", "2", "3", "4", "5", "6", "7", "8", "9">>

RECURSIVE NatDigits(_)
NatDigits(n) ==
    IF n < 10 THEN <<DigitChars[n + 1]>>
    ELSE NatDigits(n \div 10) \o <<DigitChars[(n % 10) + 1]>>

NumTok(n) ==
    IF n < 0 THEN <<"n", "-">> \o NatDigits(-n) ELSE <<"n">> \o NatDigits(n)

\* A string is written with every invalid byte replaced.
EncodeChars(s) ==
    [i \in 1..Len(s) |-> IF s[i] = BadByte THEN ReplacementChar ELSE s[i]]

StrTok(s) == <<"s">> \o EncodeChars(s)

RECURSIVE EncodeEntries(_, _)
EncodeEntries(l, i) ==
    IF i > Len(LabelNames) THEN <<>>
    ELSE LET here == {e \in l.kv : e[1] = LabelNames[i]}
         IN  (IF here = {} THEN <<>>
              ELSE LET e == CHOOSE x \in here : TRUE
                   IN  <<KeyTok(e[1]), StrTok(e[2])>>)
             \o EncodeEntries(l, i + 1)

EncodeLabels(l) ==
    IF l.isNil THEN <<NullTok>> ELSE <<LB>> \o EncodeEntries(l, 1) \o <<RB>>

\* Encode with the resolution left out of the downsample object.
EncodeMetaWithoutResolution(m) ==
    <<LB, KeyTok("version"), NumTok(m.Version),
      KeyTok("minTime"), NumTok(m.MinTime),
      KeyTok("compaction"), LB, KeyTok("level"), NumTok(m.Level), RB,
      KeyTok("thanos"), LB, KeyTok("labels")>>
    \o EncodeLabels(m.Labels)
    \o <<KeyTok("downsample"), LB, RB, RB, RB>>

\* enc.Encode(meta): the fields in the order of the struct.
EncodeMeta(m) ==
    <<LB, KeyTok("version"), NumTok(m.Version),
      KeyTok("minTime"), NumTok(m.MinTime),
      KeyTok("compaction"), LB, KeyTok("level"), NumTok(m.Level), RB,
      KeyTok("thanos"), LB, KeyTok("labels")>>
    \o EncodeLabels(m.Labels)
    \o <<KeyTok("downsample"), LB, KeyTok("resolution"),
         NumTok(m.Resolution), RB, RB, RB>>

(***************************************************************************)
(* encoding/json, reading.  A parsed value is [t, n, s, o]: its kind, and  *)
(* its number, its characters or its members <<name, value>> in order.     *)
(***************************************************************************)
JNull == [t |-> "null", n |-> 0, s |-> <<>>, o |-> <<>>]
JNum(n) == [t |-> "num", n |-> n, s |-> <<>>, o |-> <<>>]
JStr(s) == [t |-> "str", n |-> 0, s |-> s, o |-> <<>>]
JObj(o) == [t |-> "obj", n |-> 0, s |-> <<>>, o |-> o]

ParseFail == [ok |-> FALSE, val |-> JNull, next |-> 0]

DigitValue(c) == CHOOSE d \in 0..9 : DigitChars[d + 1] = c

IsDigit(c) == \E d \in 0..9 : DigitChars[d + 1] = c

RECURSIVE DigitsValue(_, _)
DigitsValue(ds, acc) ==
    IF ds = <<>> THEN acc
    ELSE DigitsValue(Tail(ds), acc * 10 + DigitValue(Head(ds)))

\* The digits of a number token, after "n" and the sign.
NumDigits(tok) ==
    IF Len(tok) >= 2 /\ tok[2] = "-" THEN SubSeq(tok, 3, Len(tok))
    ELSE SubSeq(tok, 2, Len(tok))

NumTokOK(tok) ==
    LET ds == NumDigits(tok)
    IN  /\ Len(ds) >= 1
        /\ \A i \in 1..Len(ds) : IsDigit(ds[i])
        /\ (Len(ds) > 1 => ds[1] # "0")

NumTokValue(tok) ==
    IF tok[2] = "-" THEN 0 - DigitsValue(NumDigits(tok), 0)
    ELSE DigitsValue(NumDigits(tok), 0)

RECURSIVE ParseValue(_, _), ParseMembers(_, _, _)
ParseValue(b, i) ==
    IF i > Len(b) THEN ParseFail
    ELSE LET tok == b[i]
         IN  CASE tok = NullTok -> [ok |-> TRUE, val |-> JNull, next |-> i + 1]
               [] tok[1] = "n" ->
                    IF NumTokOK(tok)
                    THEN [ok |-> TRUE, val |-> JNum(NumTokValue(tok)),
                          next |-> i + 1]
                    ELSE ParseFail
               [] tok[1] = "s" ->
                    [ok |-> TRUE, val |-> JStr(Tail(tok)), next |-> i + 1]
               [] tok = LB -> ParseMembers(b, i + 1, <<>>)
               [] OTHER -> ParseFail

ParseMembers(b, i, acc) ==
    IF i > Len(b) THEN ParseFail
    ELSE IF b[i] = RB THEN [ok |-> TRUE, val |-> JObj(acc), next |-> i + 1]
    ELSE IF b[i][1] = "k" /\ Len(b[i]) = 2
    THEN LET r == ParseValue(b, i + 1)
         IN  IF r.ok
             THEN ParseMembers(b, r.next, Append(acc, <<b[i][2], r.val>>))
             ELSE ParseFail
    ELSE ParseFail

\* The last member of object v named k, or dflt.
Member(v, k, dflt) ==
    LET idx == {i \in 1..Len(v.o) : v.o[i][1] = k}
    IN  IF idx = {} THEN dflt
        ELSE v.o[CHOOSE i \in idx : \A j \in idx : j <= i][2]

\* Whether v can be stored in a field of the given kind (null leaves the
\* field as it is).
Fits(v, kind) == v.t = kind \/ v.t = "null"

LabelsFit(v) ==
    /\ Fits(v, "obj")
    /\ \A i \in 1..Len(v.o) : v.o[i][2].t = "str"

LabelsOf(v) ==
    IF v.t = "null" THEN NilLabels
    ELSE MakeLabels({ <<v.o[i][1], v.o[i][2].s>> :
                      i \in {j \in 1..Len(v.o) :
                               \A h \in (j + 1)..Len(v.o) :
                                   v.o[h][1] # v.o[j][1]} })

\* json.Unmarshal(b, &m) into a zero Meta: [ok, m].
Unmarshal(b) ==
    LET r == ParseValue(b, 1)
    IN  IF ~r.ok \/ r.next # Len(b) + 1 \/ ~Fits(r.val, "obj")
        THEN [ok |-> FALSE, m |-> ZeroMeta]
        ELSE
        LET top    == r.val
            ver    == Member(top, "version", JNull)
            mint   == Member(top, "minTime", JNull)
            comp   == Member(top, "compaction", JNull)
            level  == Member(comp, "level", JNull)
            thanos == Member(top, "thanos", JNull)
            labels == Member(thanos, "labels", JNull)
            down   == Member(thanos, "downsample", JNull)
            res    == Member(down, "resolution", JNull)
        IN  IF /\ Fits(ver, "num") /\ Fits(mint, "num")
               /\ Fits(comp, "obj") /\ Fits(level, "num")
               /\ Fits(thanos, "obj") /\ LabelsFit(labels)
               /\ Fits(down, "obj") /\ Fits(res, "num")
            THEN [ok |-> TRUE,
                  m  |-> [ Version    |-> ver.n,
                           MinTime    |-> mint.n,
                           Level      |-> level.n,
                           Labels     |-> LabelsOf(labels),
                           Resolution |-> res.n ]]
            ELSE [ok |-> FALSE, m |-> ZeroMeta]


(***************************************************************************)
(* Errors are message chains: errors.Wrap puts its message in front.       *)
(***************************************************************************)
NoErr == <<>>
Wrap(err, msg) == <<msg>> \o err

ErrNotExist == <<"no such file or directory">>
ErrIO == <<"input/output error">>
ErrDecode == <<"invalid JSON">>
ErrVersion == <<"unexpected meta file version">>
ErrCanceled == <<"context canceled">>
ErrBucket == <<"bucket operation failed">>

(***************************************************************************)
(* The local filesystem: a function from the paths that exist (sequences   *)
(* of names) to [kind, data].                                              *)
(***************************************************************************)
Dir == [kind |-> "dir", data |-> <<>>]
File(data) == [kind |-> "file", data |-> data]

\* filepath.Join / path.Join
Join(a, b) == a \o b

IsPrefix(p, q) == Len(p) <= Len(q) /\ SubSeq(q, 1, Len(p)) = p

Exists(fs, p) == p \in DOMAIN fs
IsFile(fs, p) == Exists(fs, p) /\ fs[p].kind = "file"
IsDir(fs, p) == Exists(fs, p) /\ fs[p].kind = "dir"

\* The filesystem with the entries at the paths in gone removed.
Without(fs, gone) == [p \in DOMAIN fs \ gone |-> fs[p]]

\* os.RemoveAll(to)
RemoveAll(fs, to) == Without(fs, {p \in DOMAIN fs : IsPrefix(to, p)})

\* os.Rename(from, to) of a file
Rename(fs, from, to) ==
    [p \in (DOMAIN fs \ {from}) \cup {to} |->
        IF p = to THEN fs[from] ELSE fs[p]]

\* The file at p holding data (created or overwritten).
WriteFile(fs, p, data) ==
    [q \in DOMAIN fs \cup {p} |-> IF q = p THEN File(data) ELSE fs[q]]

MetaPath(dir) == Join(dir, <<MetaFilename>>)
\* path + ".tmp": a sibling of meta.json
TmpPath(dir) == Join(dir, <<"meta.json.tmp">>)


\* ioutil.ReadFile(p): [err, b]
ReadFile(fs, p) ==
    IF IsFile(fs, p) THEN [err |-> NoErr, b |-> fs[p].data]
    ELSE IF Exists(fs, p) THEN [err |-> ErrIO, b |-> <<>>]
    ELSE [err |-> ErrNotExist, b |-> <<>>]

\* DecodeMetaFile without the version check (line 87).
DecodeMetaFileAnyVersion(b) ==
    LET u == Unmarshal(b)
    IN  IF ~u.ok THEN [err |-> ErrDecode, m |-> ZeroMeta]
        ELSE [err |-> NoErr, m |-> u.m]

\* ReadMetaFile after its ReadFile returned bytes b: [err, m]
DecodeMetaFile(b) ==
    LET u == Unmarshal(b)
    IN  IF ~u.ok THEN [err |-> ErrDecode, m |-> ZeroMeta]
        ELSE IF u.m.Version # 1 THEN [err |-> ErrVersion, m |-> ZeroMeta]
        ELSE [err |-> NoErr, m |-> u.m]

\* ReadMetaFile(dir) on an unchanging filesystem: [err, m]
ReadMetaFile(fs, dir) ==
    LET r == ReadFile(fs, MetaPath(dir))
    IN  IF r.err # NoErr THEN [err |-> r.err, m |-> ZeroMeta]
        ELSE DecodeMetaFile(r.b)

(***************************************************************************)
(* State.                                                                  *)
(*   disk    the local filesystem                                          *)
(*   wr      the caller of WriteMetaFile: its position, arguments, result  *)
(*   rd      the caller of ReadMetaFile: its position, bytes read, result  *)
(*   bucket  the remote objects: a function from the keys that exist to    *)
(*           their content                                                 *)
(*   up      the Upload calls: position, arguments, err variable, result,  *)
(*           and the objstore calls it has made so far (ops)               *)
(*   fin     the caller of Finalize: position, arguments, newMeta, result  *)
(*   dl      the caller of Download: position, arguments, result           *)
(*   dm      the caller of DownloadMeta and of Delete: position,           *)
(*           arguments, result                                             *)
(***************************************************************************)
VARIABLES disk, wr, rd, bucket, up, fin, dl, dm

vars == <<disk, wr, rd, bucket, up, fin, dl, dm>>

localVars == <<disk, wr, rd>>
remoteVars == <<bucket, up>>
callVars == <<fin, dl, dm>>

\* A caller of Finalize that has not called yet.  args is <<extLset,
\* resolution, downsampledMeta>>, downsampledMeta being <<>> for nil and
\* <<m>> for a pointer to m; ret is the returned pointer in the same form.
FinIdle ==
    [ pc |-> "idle", calls |-> 0, args |-> <<>>, newMeta |-> <<>>,
      ret |-> <<>>, err |-> <<>>, faulted |-> FALSE, b0 |-> <<>>,
      prevOK |-> FALSE, prevArgs |-> <<>>, prevBytes |-> <<>> ]

\* A caller of Download that has not called yet.
DlIdle ==
    [ pc |-> "idle", calls |-> 0, id |-> "", dst |-> <<>>, err |-> <<>>, fetchErr |-> <<>>, disk0 |-> <<>>, fetched |-> <<>>,
      noChunks |-> FALSE ]

\* A caller of DownloadMeta and Delete that has not called yet.
DmIdle ==
    [ pc |-> "idle", calls |-> 0, op |-> "", id |-> "", m |-> <<>>,
      err |-> <<>>, b |-> <<>>, found |-> FALSE, bkt0 |-> <<>>,
      hidden |-> FALSE, dataUp |-> FALSE ]

\* The block directory the metadata store is exercised on.
BlockDir == <<"01A">>

\* What a meta.json can hold before any call: encodings of metadata, an
\* empty object, a truncated encoding.
SomeMeta == CHOOSE m \in Meta : m.Version = 1 /\ LabelsLen(m.Labels) = 2
                                   /\ m.Resolution = 0
EmptyObject == <<LB, RB>>
Truncated == SubSeq(EncodeMeta(SomeMeta), 1, Len(EncodeMeta(SomeMeta)) - 1)

WrIdle ==
    [ pc |-> "idle", m |-> ZeroMeta, err |-> NoErr, calls |-> 0,
      hadOld |-> FALSE, old |-> <<>>, crashedAt |-> "" ]

RdIdle ==
    [ pc |-> "idle", b |-> <<>>, m |-> ZeroMeta, err |-> NoErr, calls |-> 0,
      valid0 |-> FALSE, old |-> <<>>, news |-> {}, afterWrite |-> FALSE,
      found |-> FALSE ]

InitMeta ==
    /\ \E content \in {EncodeMeta(SomeMeta), EmptyObject, Truncated} :
       \E present \in BOOLEAN :
          disk = IF present
                 THEN (BlockDir :> Dir) @@ (MetaPath(BlockDir) :> File(content))
                 ELSE (BlockDir :> Dir)
    /\ wr = WrIdle
    /\ rd = RdIdle
    /\ bucket = <<>>
    /\ up = <<>>
    /\ fin = FinIdle
    /\ dl = DlIdle
    /\ dm = DmIdle

WrRunning == wr.pc \in {"encode", "close", "remove", "rename", "sync"}
RdRunning == rd.pc \in {"readfile", "unmarshal"}

WrReturn(err) == [wr EXCEPT !.pc = "done", !.err = err]

(***************************************************************************)
(* WriteMetaFile(dir, meta), one action per filesystem call.               *)
(***************************************************************************)
\* os.Create(tmp)
WriteMetaFile_Create(m, fault) ==
    /\ wr.pc = "idle"
    /\ wr.calls < MaxWrites
    /\ LET w == [wr EXCEPT !.m = m, !.err = NoErr, !.calls = @ + 1,
                           !.hadOld = IsFile(disk, MetaPath(BlockDir)),
                           !.old = ReadFile(disk, MetaPath(BlockDir)).b]
       IN  IF fault \/ ~IsDir(disk, BlockDir)
           THEN /\ wr' = [w EXCEPT !.pc = "done", !.err = ErrIO]
                /\ disk' = disk
           ELSE /\ wr' = [w EXCEPT !.pc = "encode"]
                /\ disk' = WriteFile(disk, TmpPath(BlockDir), <<>>)
    /\ rd' = IF RdRunning THEN [rd EXCEPT !.news = @ \cup {m},
                                          !.afterWrite = FALSE]
             ELSE [rd EXCEPT !.afterWrite = FALSE]
    /\ UNCHANGED <<remoteVars, callVars>>

\* enc.Encode(meta); a failed write leaves the first n tokens in the file.
WriteMetaFile_Encode(fault, n) ==
    /\ wr.pc = "encode"
    /\ IF fault
       THEN /\ disk' = WriteFile(disk, TmpPath(BlockDir),
                                 SubSeq(EncodeMeta(wr.m), 1, n))
            /\ wr' = WrReturn(ErrIO)
       ELSE /\ disk' = WriteFile(disk, TmpPath(BlockDir), EncodeMeta(wr.m))
            /\ wr' = [wr EXCEPT !.pc = "close"]
    /\ UNCHANGED <<rd, remoteVars, callVars>>

\* f.Close()
WriteMetaFile_Close(fault) ==
    /\ wr.pc = "close"
    /\ wr' = IF fault THEN WrReturn(ErrIO) ELSE [wr EXCEPT !.pc = "remove"]
    /\ UNCHANGED <<disk, rd, remoteVars, callVars>>

\* renameFile: os.RemoveAll(to)
renameFile_RemoveAll(fault) ==
    /\ wr.pc = "remove"
    /\ IF fault
       THEN wr' = WrReturn(ErrIO) /\ disk' = disk
       ELSE /\ wr' = [wr EXCEPT !.pc = "rename"]
            /\ disk' = RemoveAll(disk, MetaPath(BlockDir))
    /\ UNCHANGED <<rd, remoteVars, callVars>>

\* renameFile: os.Rename(from, to)
renameFile_Rename(fault) ==
    /\ wr.pc = "rename"
    /\ IF fault
       THEN wr' = WrReturn(ErrIO) /\ disk' = disk
       ELSE /\ wr' = [wr EXCEPT !.pc = "sync"]
            /\ disk' = Rename(disk, TmpPath(BlockDir), MetaPath(BlockDir))
    /\ UNCHANGED <<rd, remoteVars, callVars>>

\* renameFile: OpenDir, Fsync and Close of the parent directory
renameFile_Sync(fault) ==
    /\ wr.pc = "sync"
    /\ wr' = WrReturn(IF fault THEN ErrIO ELSE NoErr)
    /\ UNCHANGED <<disk, rd, remoteVars, callVars>>

\* The caller takes the result and may call again.
WriteMetaFile_Return ==
    /\ wr.pc = "done"
    /\ wr' = [wr EXCEPT !.pc = "idle"]
    /\ UNCHANGED <<disk, rd, remoteVars, callVars>>

\* The writing process dies between two of its filesystem calls.
Crash ==
    /\ WrRunning
    /\ wr' = [wr EXCEPT !.pc = "crashed", !.crashedAt = wr.pc]
    /\ UNCHANGED <<disk, rd, remoteVars, callVars>>

(***************************************************************************)
(* ReadMetaFile(dir).                                                      *)
(***************************************************************************)
ReadMetaFile_Call ==
    /\ rd.pc = "idle"
    /\ rd.calls < MaxReads
    /\ rd' = [rd EXCEPT
                !.pc = "readfile", !.calls = @ + 1, !.b = <<>>,
                !.m = ZeroMeta, !.err = NoErr, !.found = FALSE,
                !.valid0 = ReadMetaFile(disk, BlockDir).err = NoErr,
                !.old = ReadFile(disk, MetaPath(BlockDir)).b,
                !.news = IF WrRunning THEN {wr.m} ELSE {},
                !.afterWrite = wr.pc \in {"done", "idle"} /\ wr.calls > 0
                               /\ wr.err = NoErr]
    /\ UNCHANGED <<disk, wr, remoteVars, callVars>>

\* ioutil.ReadFile
ReadMetaFile_ReadFile ==
    /\ rd.pc = "readfile"
    /\ LET r == ReadFile(disk, MetaPath(BlockDir))
       IN  rd' = IF r.err # NoErr
                 THEN [rd EXCEPT !.pc = "done", !.err = r.err]
                 ELSE [rd EXCEPT !.pc = "unmarshal", !.b = r.b,
                                 !.found = TRUE]
    /\ UNCHANGED <<disk, wr, remoteVars, callVars>>

\* json.Unmarshal and the version check
ReadMetaFile_Unmarshal ==
    /\ rd.pc = "unmarshal"
    /\ LET r == DecodeMetaFile(rd.b)
       IN  rd' = [rd EXCEPT !.pc = "done", !.err = r.err, !.m = r.m]
    /\ UNCHANGED <<disk, wr, remoteVars, callVars>>

ReadMetaFile_Return ==
    /\ rd.pc = "done"
    /\ rd' = [RdIdle EXCEPT !.calls = rd.calls]
    /\ UNCHANGED <<disk, wr, remoteVars, callVars>>

NextMeta ==
    \/ \E m \in MetaInputs : \E fault \in BOOLEAN : WriteMetaFile_Create(m, fault)
    \/ \E fault \in BOOLEAN : \E n \in {1, Len(EncodeMeta(wr.m)) - 1} :
          WriteMetaFile_Encode(fault, n)
    \/ \E fault \in BOOLEAN : WriteMetaFile_Close(fault)
    \/ \E fault \in BOOLEAN : renameFile_RemoveAll(fault)
    \/ \E fault \in BOOLEAN : renameFile_Rename(fault)
    \/ \E fault \in BOOLEAN : renameFile_Sync(fault)
    \/ WriteMetaFile_Return
    \/ Crash
    \/ ReadMetaFile_Call
    \/ ReadMetaFile_ReadFile
    \/ ReadMetaFile_Unmarshal
    \/ ReadMetaFile_Return

SpecMeta == InitMeta /\ [][NextMeta]_vars


(***************************************************************************)
(* Block identifiers.  ulid.Parse accepts the names in ULIDNames; the      *)
(* identifier's String() is the name again.                                *)
(***************************************************************************)
ULIDNames == {"01A", "01B"}

UlidParse(name) == [ok |-> name \in ULIDNames, id |-> name]

\* The zero value of ulid.ULID (var id ulid.ULID).
ZeroULID == ""

\* id.String(): 26 characters, for the zero value 26 zeros.
IdString(id) == IF id = ZeroULID THEN "00000000000000000000000000" ELSE id

(***************************************************************************)
(* The bucket (objstore): objects by key, a key being a sequence of names. *)
(***************************************************************************)
MetaKey(id) == Join(<<IdString(id)>>, <<MetaFilename>>)
IndexKey(id) == Join(<<IdString(id)>>, <<IndexFilename>>)
ChunksKey(id) == Join(<<IdString(id)>>, <<ChunksDirname>>)
\* The debug copy written at the key of the block's meta.json.
DebugKeyInBlock(id) == Join(<<IdString(id)>>, <<MetaFilename>>)
\* path.Join(DebugMetas, fmt.Sprintf("%s.json", id))
DebugKey(id) == Join(<<DebugMetas>>, <<IdString(id), ".json">>)

\* The objects under a key prefix.
Under(bkt, prefix) == {k \in DOMAIN bkt : IsPrefix(prefix, k)}

\* context.Background(), and the ctx argument of an Upload call.
ContextBackground == "background"
ContextOfCall == "ctx"

\* ctx.Done() is closed: only a call's own context is ever canceled.
CtxDone(ctx, canceled) == ctx # ContextBackground /\ canceled

\* objstore.UploadFile(ctx, bkt, src, dst): [err, bkt]
UploadFile(done, fault, bkt, fs, src, dst) ==
    IF ~IsFile(fs, src) THEN [err |-> ErrNotExist, bkt |-> bkt]
    ELSE IF done THEN [err |-> ErrCanceled, bkt |-> bkt]
    ELSE IF fault THEN [err |-> ErrBucket, bkt |-> bkt]
    ELSE [err |-> NoErr,
          bkt |-> [k \in DOMAIN bkt \cup {dst} |->
                      IF k = dst THEN fs[src].data ELSE bkt[k]]]

\* Every key a bucket can hold, in the order a listing returns them.
ChunkFileNames == <<"000001", "000002", "000003">>

BlockKeys(id) ==
    [i \in 1..Len(ChunkFileNames) |-> Join(ChunksKey(id), <<ChunkFileNames[i]>>)]
    \o <<IndexKey(id), MetaKey(id)>>

AllKeys ==
    BlockKeys(ZeroULID) \o BlockKeys("01A") \o BlockKeys("01B")
    \o <<DebugKey("01A"), DebugKey("01B")>>

\* The objects under a prefix as a listing returns them.
Listing(bkt, prefix) ==
    SelectSeq(AllKeys, LAMBDA k : k \in DOMAIN bkt /\ IsPrefix(prefix, k))

\* objstore.DeleteDir(ctx, bkt, prefix): [err, bkt].  The objects are
\* deleted one by one as listed; a failure comes after nDeleted of them.
DeleteDir(done, fault, nDeleted, bkt, prefix) ==
    LET objs == Listing(bkt, prefix)
    IN  IF done THEN [err |-> ErrCanceled, bkt |-> bkt]
        ELSE IF fault
        THEN [err |-> ErrBucket,
              bkt |-> Without(bkt, {objs[i] : i \in 1..nDeleted})]
        ELSE [err |-> NoErr, bkt |-> Without(bkt, Under(bkt, prefix))]

\* Delete with the empty prefix.
DeleteOfBucket(done, fault, nDeleted, bkt, id) ==
    DeleteDir(done, fault, nDeleted, bkt, <<>>)

\* Delete(ctx, bucket, id)
Delete(done, fault, nDeleted, bkt, id) ==
    DeleteDir(done, fault, nDeleted, bkt, <<IdString(id)>>)

CleanUpWarning ==
    "failed to clean block after upload issue. Partial block in system."

\* cleanUp returning err whether or not the delete failed.
cleanUpSilent(fault, nDeleted, bkt, id, err) ==
    LET d == Delete(CtxDone(ContextBackground, TRUE), fault, nDeleted, bkt, id)
    IN  [err |-> err, bkt |-> d.bkt, cleanErr |-> d.err]

\* cleanUp(bkt, id, err): [err, bkt], and the error of its Delete
cleanUp(fault, nDeleted, bkt, id, err) ==
    LET d == Delete(CtxDone(ContextBackground, TRUE), fault, nDeleted, bkt, id)
    IN  [err |-> IF d.err # NoErr THEN Wrap(err, CleanUpWarning) ELSE err,
         bkt |-> d.bkt, cleanErr |-> d.err]

(***************************************************************************)
(* The local block directories Upload is given.                            *)
(***************************************************************************)
IndexData == <<<<"s", "i", "n", "d", "e", "x">>>>
ChunkData(i) == <<<<"s", "c", "h", "u", "n", "k">>, NumTok(i)>>

ChunksPath(dir) == Join(dir, <<ChunksDirname>>)
IndexPath(dir) == Join(dir, <<IndexFilename>>)

\* The chunk files of a block directory, in the order filepath.Walk
\* visits them.
LocalChunks(fs, dir) ==
    SelectSeq([i \in 1..Len(ChunkFileNames) |->
                  Join(ChunksPath(dir), <<ChunkFileNames[i]>>)],
              LAMBDA p : IsFile(fs, p))

\* A directory named name: hasMeta/content its meta.json, hasIndex its
\* index, nChunks its chunk files (-1: no chunks directory).
BlockDisk(name, hasMeta, content, hasIndex, nChunks) ==
    LET d == <<name>>
        files ==
            {<<d, Dir>>}
            \cup (IF hasMeta THEN {<<MetaPath(d), File(content)>>} ELSE {})
            \cup (IF hasIndex THEN {<<IndexPath(d), File(IndexData)>>} ELSE {})
            \cup (IF nChunks >= 0 THEN {<<ChunksPath(d), Dir>>} ELSE {})
            \cup { <<Join(ChunksPath(d), <<ChunkFileNames[i]>>),
                     File(ChunkData(i))>> : i \in 1..nChunks }
    IN  [p \in {f[1] : f \in files} |->
            (CHOOSE f \in files : f[1] = p)[2]]

MetaContents ==
    {EncodeMeta(m) : m \in MetaInputs} \cup {EmptyObject, Truncated}

DiskInputs ==
    { BlockDisk("01A", TRUE, EncodeMeta(SomeMeta), hasIndex, n) :
        hasIndex \in BOOLEAN, n \in -1..MaxChunks }
    \cup { BlockDisk("01A", hasMeta, c, TRUE, 1) :
             hasMeta \in BOOLEAN, c \in MetaContents }
    \cup { BlockDisk("tmp", TRUE, EncodeMeta(SomeMeta), TRUE, 1) }
    \cup { <<"01A">> :> File(<<>>) }

BdirInputs == {<<"01A">>, <<"tmp">>}

(***************************************************************************)
(* Upload(ctx, bkt, bdir).                                                 *)
(***************************************************************************)
\* Validate without the check of the labels (line 159).
ValidateWithoutLabels(fs, bdir) ==
    IF ~Exists(fs, bdir)
    THEN [err |-> Wrap(ErrNotExist, "stat bdir"), id |-> ""]
    ELSE IF ~IsDir(fs, bdir)
    THEN [err |-> <<"is not a directory">>, id |-> ""]
    ELSE LET parsed == UlidParse(bdir[Len(bdir)])
             meta == ReadMetaFile(fs, bdir)
         IN  IF ~parsed.ok
             THEN [err |-> <<"not a block dir">>, id |-> ""]
             ELSE IF meta.err # NoErr
             THEN [err |-> Wrap(meta.err, "read meta"), id |-> parsed.id]
             ELSE [err |-> NoErr, id |-> parsed.id]

\* The steps before the first bucket operation: [err, id]
Validate(fs, bdir) ==
    IF ~Exists(fs, bdir)
    THEN [err |-> Wrap(ErrNotExist, "stat bdir"), id |-> ""]
    ELSE IF ~IsDir(fs, bdir)
    THEN [err |-> <<"is not a directory">>, id |-> ""]
    ELSE LET parsed == UlidParse(bdir[Len(bdir)])
             meta == ReadMetaFile(fs, bdir)
         IN  IF ~parsed.ok
             THEN [err |-> <<"not a block dir">>, id |-> ""]
             ELSE IF meta.err # NoErr
             THEN [err |-> Wrap(meta.err, "read meta"), id |-> parsed.id]
             ELSE IF meta.m.Labels.isNil \/ LabelsLen(meta.m.Labels) = 0
             THEN [err |-> <<"empty external labels are not allowed">>,
                   id |-> parsed.id]
             ELSE [err |-> NoErr, id |-> parsed.id]

UpIdle ==
    [ pc |-> "idle", bdir |-> <<>>, id |-> "", err |-> NoErr,
      arg |-> NoErr, ret |-> NoErr, canceled |-> FALSE, n |-> 0,
      calls |-> 0, empty0 |-> FALSE, early |-> FALSE, bkt0 |-> <<>>,
      ops |-> <<>> ]

Init ==
    /\ disk \in DiskInputs
    /\ wr = WrIdle
    /\ rd = RdIdle
    /\ bucket = <<>>
    /\ up = [c \in {1} |-> UpIdle]
    /\ fin = FinIdle
    /\ dl = DlIdle
    /\ dm = DmIdle

\* meta.json is in the bucket while the index or a chunk of the block is not.
MetaBeforeData(bkt, fs, bdir, id) ==
    /\ MetaKey(id) \in DOMAIN bkt
    /\ \/ IndexKey(id) \notin DOMAIN bkt
       \/ \E i \in 1..Len(LocalChunks(fs, bdir)) :
             Join(ChunksKey(id), <<LocalChunks(fs, bdir)[i][Len(bdir) + 2]>>)
                \notin DOMAIN bkt

\* The call's record after it issued a bucket operation that ended with
\* err and left the bucket as bkt.
Did(u, step, op, key, ctx, err, bkt) ==
    [u EXCEPT
       !.ops = Append(@, [step |-> step, op |-> op, key |-> key,
                          ctx |-> ctx, err |-> err]),
       !.early = @ \/ MetaBeforeData(bkt, disk, u.bdir, u.id)]

UpReturn(u, err) == [u EXCEPT !.pc = "done", !.ret = err]

\* Lines 139-161.
Upload_Validate(c, bdir) ==
    /\ up[c].pc = "idle"
    /\ up[c].calls < MaxUploads
    /\ LET v == Validate(disk, bdir)
           u == [UpIdle EXCEPT !.bdir = bdir, !.id = v.id,
                               !.calls = up[c].calls + 1,
                               !.bkt0 = bucket,
                               !.empty0 = Under(bucket, <<IdString(v.id)>>) = {}]
       IN  up' = [up EXCEPT ![c] =
                    IF v.err # NoErr THEN UpReturn(u, v.err)
                    ELSE [u EXCEPT !.pc = "debugMeta"]]
    /\ UNCHANGED <<bucket, localVars, callVars>>

\* Lines 163-165: the result of UploadFile is dropped and the err that is
\* tested is the function's, which ReadMetaFile left nil.
Upload_DebugMeta(c, fault) ==
    /\ up[c].pc = "debugMeta"
    /\ LET r == UploadFile(CtxDone(ContextOfCall, up[c].canceled), fault,
                           bucket, disk, MetaPath(up[c].bdir),
                           DebugKey(up[c].id))
           u == Did(up[c], "debugMeta", "upload", DebugKey(up[c].id),
                    ContextOfCall, r.err, r.bkt)
       IN  /\ bucket' = r.bkt
           /\ up' = [up EXCEPT ![c] =
                        IF u.err # NoErr
                        THEN UpReturn(u, Wrap(u.err,
                                        "upload meta file to debug dir"))
                        ELSE [u EXCEPT !.pc = "chunks"]]
    /\ UNCHANGED <<localVars, callVars>>

\* Lines 167-169: objstore.UploadDir uploads the files of the chunks
\* directory one by one and stops at the first failure.
Upload_Chunks(c, fault) ==
    /\ up[c].pc = "chunks"
    /\ LET files == LocalChunks(disk, up[c].bdir)
       IN  IF ~IsDir(disk, ChunksPath(up[c].bdir))
           THEN /\ up' = [up EXCEPT ![c] =
                            [Did(@, "chunks", "upload", ChunksKey(@.id),
                                 ContextOfCall, ErrNotExist, bucket)
                               EXCEPT !.pc = "cleanUp",
                                      !.arg = Wrap(ErrNotExist, "upload chunks")]]
                /\ bucket' = bucket
           ELSE IF up[c].n = Len(files)
           THEN /\ up' = [up EXCEPT ![c] = [@ EXCEPT !.pc = "index"]]
                /\ bucket' = bucket
           ELSE LET src == files[up[c].n + 1]
                    dst == Join(ChunksKey(up[c].id), <<src[Len(src)]>>)
                    r == UploadFile(CtxDone(ContextOfCall, up[c].canceled),
                                    fault, bucket, disk, src, dst)
                    u == Did(up[c], "chunks", "upload", dst, ContextOfCall,
                             r.err, r.bkt)
                IN  /\ bucket' = r.bkt
                    /\ up' = [up EXCEPT ![c] =
                          IF r.err # NoErr
                          THEN [u EXCEPT !.pc = "cleanUp",
                                         !.arg = Wrap(r.err, "upload chunks")]
                          ELSE [u EXCEPT !.n = u.n + 1,
                                         !.pc = IF u.n + 1 = Len(files)
                                                THEN "index" ELSE "chunks"]]
    /\ UNCHANGED <<localVars, callVars>>

\* Lines 171-173: as at line 163, the result of UploadFile is dropped.
Upload_Index(c, fault) ==
    /\ up[c].pc = "index"
    /\ LET r == UploadFile(CtxDone(ContextOfCall, up[c].canceled), fault,
                           bucket, disk, IndexPath(up[c].bdir),
                           IndexKey(up[c].id))
           u == Did(up[c], "index", "upload", IndexKey(up[c].id),
                    ContextOfCall, r.err, r.bkt)
       IN  /\ bucket' = r.bkt
           /\ up' = [up EXCEPT ![c] =
                        IF u.err # NoErr
                        THEN [u EXCEPT !.pc = "cleanUp",
                                       !.arg = Wrap(u.err, "upload index")]
                        ELSE [u EXCEPT !.pc = "meta"]]
    /\ UNCHANGED <<localVars, callVars>>

\* Lines 177-181: as at line 163, the result of UploadFile is dropped.
Upload_Meta(c, fault) ==
    /\ up[c].pc = "meta"
    /\ LET r == UploadFile(CtxDone(ContextOfCall, up[c].canceled), fault,
                           bucket, disk, MetaPath(up[c].bdir),
                           MetaKey(up[c].id))
           u == Did(up[c], "meta", "upload", MetaKey(up[c].id),
                    ContextOfCall, r.err, r.bkt)
       IN  /\ bucket' = r.bkt
           /\ up' = [up EXCEPT ![c] =
                        IF u.err # NoErr
                        THEN [u EXCEPT !.pc = "cleanUp",
                                       !.arg = Wrap(u.err, "upload meta file")]
                        ELSE UpReturn(u, NoErr)]
    /\ UNCHANGED <<localVars, callVars>>

\* Lines 184-191: return cleanUp(bkt, id, err)
Upload_CleanUp(c, fault, nDeleted) ==
    /\ up[c].pc = "cleanUp"
    /\ nDeleted < Len(Listing(bucket, <<IdString(up[c].id)>>)) \/ nDeleted = 0
    /\ LET r == cleanUp(fault, nDeleted, bucket, up[c].id, up[c].arg)
           u == Did(up[c], "cleanUp", "delete", <<IdString(up[c].id)>>,
                    ContextBackground, r.cleanErr, r.bkt)
       IN  /\ bucket' = r.bkt
           /\ up' = [up EXCEPT ![c] = UpReturn(u, r.err)]
    /\ UNCHANGED <<localVars, callVars>>

\* The caller cancels the context it passed to Upload.
Cancel(c) ==
    /\ up[c].pc \in {"debugMeta", "chunks", "index", "meta"}
    /\ ~up[c].canceled
    /\ up' = [up EXCEPT ![c].canceled = TRUE]
    /\ UNCHANGED <<bucket, localVars, callVars>>

\* The caller takes the result and may call again.
Upload_Return(c) ==
    /\ up[c].pc = "done"
    /\ up' = [up EXCEPT ![c] = [UpIdle EXCEPT !.calls = up[c].calls]]
    /\ UNCHANGED <<bucket, localVars, callVars>>

Next ==
    \/ \E c \in DOMAIN up : \E bdir \in BdirInputs : Upload_Validate(c, bdir)
    \/ \E c \in DOMAIN up : \E fault \in BOOLEAN : Upload_DebugMeta(c, fault)
    \/ \E c \in DOMAIN up : \E fault \in BOOLEAN : Upload_Chunks(c, fault)
    \/ \E c \in DOMAIN up : \E fault \in BOOLEAN : Upload_Index(c, fault)
    \/ \E c \in DOMAIN up : \E fault \in BOOLEAN : Upload_Meta(c, fault)
    \/ \E c \in DOMAIN up : \E fault \in BOOLEAN :
       \E nDeleted \in 0..Len(AllKeys) : Upload_CleanUp(c, fault, nDeleted)
    \/ \E c \in DOMAIN up : Cancel(c)
    \/ \E c \in DOMAIN up : Upload_Return(c)

Spec == Init /\ [][Next]_vars

(***************************************************************************)
(* Finalize(bdir, extLset, resolution, downsampledMeta).                   *)
(***************************************************************************)
\* Number of Finalize calls of a run.
MaxFinalize == 2

TombstonesPath(dir) == Join(dir, <<"tombstones">>)

\* os.Remove(p): [err, fs].  A missing entry and a directory that is not
\* empty are errors.
Remove(fs, p) ==
    IF ~Exists(fs, p) THEN [err |-> ErrNotExist, fs |-> fs]
    ELSE IF \E q \in DOMAIN fs : q # p /\ IsPrefix(p, q)
         THEN [err |-> ErrIO, fs |-> fs]
    ELSE [err |-> NoErr, fs |-> Without(fs, {p})]

\* The filesystem calls of WriteMetaFile in order; failAt names the one
\* that fails ("" for none).
WriteSteps == <<"create", "encode", "close", "remove", "rename", "sync">>

\* WriteMetaFile(dir, meta) run to its return on filesystem fs: [err, fs].
WriteMetaFile(fs, dir, m, failAt) ==
    LET tmp == TmpPath(dir)
        written == WriteFile(fs, tmp, EncodeMeta(m))
        removed == RemoveAll(written, MetaPath(dir))
        renamed == Rename(removed, tmp, MetaPath(dir))
    IN  CASE failAt = "create" \/ ~IsDir(fs, dir) ->
                [err |-> ErrIO, fs |-> fs]
          [] failAt = "encode" ->
                [err |-> ErrIO,
                 fs |-> WriteFile(fs, tmp, SubSeq(EncodeMeta(m), 1, 1))]
          [] failAt \in {"close", "remove"} -> [err |-> ErrIO, fs |-> written]
          [] failAt = "rename" -> [err |-> ErrIO, fs |-> removed]
          [] failAt = "sync" -> [err |-> ErrIO, fs |-> renamed]
          [] OTHER -> [err |-> NoErr, fs |-> renamed]

\* The source block's metadata of a downsampled block.
DownsampledMeta == [SomeMeta EXCEPT !.Level = 2, !.MinTime = 0]

\* Arguments of Finalize: <<extLset, resolution, downsampledMeta>>.
FinalizeInputs ==
    { <<l, r, d>> : l \in LabelMaps, r \in {0, MaxNum},
                    d \in {<<>>, <<DownsampledMeta>>} }

\* Lines 228-233 with Compaction left as it was read.
NewMetaKeepCompaction(m, extLset, resolution, downsampledMeta) ==
    [m EXCEPT !.Labels = extLset, !.Resolution = resolution]

\* Lines 228-233: the metadata read, with labels and resolution set and
\* Compaction taken from downsampledMeta when that is not nil.
NewMeta(m, extLset, resolution, downsampledMeta) ==
    [m EXCEPT !.Labels = extLset, !.Resolution = resolution,
              !.Level = IF downsampledMeta # <<>>
                        THEN downsampledMeta[1].Level ELSE @]

\* Lines 223-233.
Finalize_ReadMetaFile(args) ==
    /\ fin.pc = "idle"
    /\ fin.calls < MaxFinalize
    /\ LET r == ReadMetaFile(disk, BlockDir)
           f == [fin EXCEPT !.calls = @ + 1, !.args = args, !.err = NoErr,
                            !.ret = <<>>, !.newMeta = <<>>,
                            !.faulted = FALSE,
                            !.b0 = ReadFile(disk, MetaPath(BlockDir)).b]
       IN  fin' = IF r.err # NoErr
                  THEN [f EXCEPT !.pc = "done",
                                 !.err = Wrap(r.err, "read new meta")]
                  ELSE [f EXCEPT !.pc = "write",
                                 !.newMeta = <<NewMeta(r.m, args[1], args[2],
                                                       args[3])>>]
    /\ UNCHANGED <<disk, wr, rd, remoteVars, dl, dm>>

\* Lines 235-237.
Finalize_WriteMetaFile(failAt) ==
    /\ fin.pc = "write"
    /\ LET r == WriteMetaFile(disk, BlockDir, fin.newMeta[1], failAt)
       IN  /\ disk' = r.fs
           /\ fin' = IF r.err # NoErr
                     THEN [fin EXCEPT !.pc = "done", !.faulted = TRUE,
                                      !.err = Wrap(r.err, "write new meta")]
                     ELSE [fin EXCEPT !.pc = "tombstones"]
    /\ UNCHANGED <<wr, rd, remoteVars, dl, dm>>

\* Lines 239-243.
Finalize_RemoveTombstones(fault) ==
    /\ fin.pc = "tombstones"
    /\ LET r == IF fault THEN [err |-> ErrIO, fs |-> disk]
                ELSE Remove(disk, TombstonesPath(BlockDir))
       IN  /\ disk' = r.fs
           /\ fin' = IF r.err # NoErr
                     THEN [fin EXCEPT !.pc = "done", !.faulted = fault,
                                      !.err = Wrap(r.err, "remove tombstones")]
                     ELSE [fin EXCEPT !.pc = "done", !.ret = fin.newMeta]
    /\ UNCHANGED <<wr, rd, remoteVars, dl, dm>>

\* The caller takes the result and may call again.
Finalize_Return ==
    /\ fin.pc = "done"
    /\ fin' = [fin EXCEPT !.pc = "idle", !.prevOK = fin.err = NoErr,
                          !.prevArgs = fin.args,
                          !.prevBytes = ReadFile(disk, MetaPath(BlockDir)).b]
    /\ UNCHANGED <<disk, wr, rd, remoteVars, dl, dm>>

\* A block directory before Finalize: meta.json of version 1 or 2 or
\* missing, tombstones present or not.
InitFinalize ==
    /\ \E content \in {<<EncodeMeta(SomeMeta)>>,
                       <<EncodeMeta([SomeMeta EXCEPT !.Version = 2])>>, <<>>} :
       \E tombstones \in BOOLEAN :
          disk = (BlockDir :> Dir)
                 @@ (IF content # <<>>
                     THEN MetaPath(BlockDir) :> File(content[1]) ELSE <<>>)
                 @@ (IF tombstones
                     THEN TombstonesPath(BlockDir) :> File(<<>>) ELSE <<>>)
    /\ wr = WrIdle
    /\ rd = RdIdle
    /\ bucket = <<>>
    /\ up = <<>>
    /\ fin = FinIdle
    /\ dl = DlIdle
    /\ dm = DmIdle

NextFinalize ==
    \/ \E args \in FinalizeInputs : Finalize_ReadMetaFile(args)
    \/ \E failAt \in {""} \cup {WriteSteps[i] : i \in DOMAIN WriteSteps} :
          Finalize_WriteMetaFile(failAt)
    \/ \E fault \in BOOLEAN : Finalize_RemoveTombstones(fault)
    \/ Finalize_Return

SpecFinalize == InitFinalize /\ [][NextFinalize]_vars
(***************************************************************************)
(* The remote blocks Download, DownloadMeta and Delete are given.          *)
(***************************************************************************)
\* Number of Download calls of a run.
MaxDownloads == 1
\* Number of DownloadMeta and Delete calls of a run.
MaxBucketCalls == 2

ErrNotFound == <<"object not found">>

\* A complete encoding followed by one more token.
TrailingData == EncodeMeta(SomeMeta) \o <<RB>>

\* What a remote meta.json can hold, whoever put it there: <<>> for no
\* object.
RemoteMetaInputs ==
    { <<>>, <<EncodeMeta(SomeMeta)>>,
      <<EncodeMeta([SomeMeta EXCEPT !.Version = 2])>>,
      <<EmptyObject>>, <<Truncated>>, <<TrailingData>> }

\* The objects of a block in the bucket: its meta.json, index and nChunks
\* chunk objects.
RemoteBlock(id, content, nChunks) ==
    (IF content # <<>> THEN MetaKey(id) :> content[1] ELSE <<>>)
    @@ (IndexKey(id) :> IndexData)
    @@ [k \in {Join(ChunksKey(id), <<ChunkFileNames[i]>>) : i \in 1..nChunks}
          |-> ChunkData(1)]

\* Objects that are not under the prefix of block 01A.
OtherObjects ==
    (DebugKey("01A") :> EncodeMeta(SomeMeta))
    @@ (MetaKey("01B") :> EncodeMeta(SomeMeta))
    @@ (MetaKey(ZeroULID) :> EncodeMeta(SomeMeta))
    @@ (IndexKey(ZeroULID) :> IndexData)

BucketInputs ==
    { RemoteBlock("01A", c, 1) @@ OtherObjects : c \in RemoteMetaInputs }
    \cup { RemoteBlock("01A", <<EncodeMeta(SomeMeta)>>, 0) @@ OtherObjects }

\* The destination before a Download: missing, an empty directory, or the
\* directory of an earlier download.
DstInputs ==
    { <<>>, BlockDir :> Dir,
      BlockDisk("01A", TRUE, EncodeMeta(SomeMeta), FALSE, 0) }

IdInputs == {"01A", "01B", ZeroULID}

(***************************************************************************)
(* Download(ctx, bucket, id, dst).                                         *)
(***************************************************************************)
\* os.MkdirAll(p): p and the ancestors of p that are missing become
\* directories.
MkdirAll(fs, p) ==
    LET missing == {SubSeq(p, 1, i) : i \in 1..Len(p)} \ DOMAIN fs
    IN  [q \in DOMAIN fs \cup missing |-> IF q \in missing THEN Dir ELSE fs[q]]

\* The objects keys[i..] of the bucket written below dst, each at the path
\* its key has below the prefix of length n.
RECURSIVE FetchAll(_, _, _, _, _, _)
FetchAll(fs, bkt, keys, n, dst, i) ==
    IF i > Len(keys) THEN fs
    ELSE LET p == Join(dst, SubSeq(keys[i], n + 1, Len(keys[i])))
         IN  FetchAll(WriteFile(MkdirAll(fs, SubSeq(p, 1, Len(p) - 1)), p,
                                bkt[keys[i]]),
                      bkt, keys, n, dst, i + 1)

\* objstore.DownloadDir(ctx, bkt, prefix, dst): [err, fs].  It creates dst
\* and fetches the objects under the prefix one by one as listed; a
\* failure comes after nFetched of them and leaves them where they are.
DownloadDir(fault, nFetched, bkt, prefix, fs, dst) ==
    LET objs == Listing(bkt, prefix)
    IN  IF fault
        THEN [err |-> ErrBucket,
              fs |-> FetchAll(MkdirAll(fs, dst), bkt,
                              SubSeq(objs, 1, nFetched), Len(prefix), dst, 1)]
        ELSE [err |-> NoErr,
              fs |-> FetchAll(MkdirAll(fs, dst), bkt, objs, Len(prefix),
                              dst, 1)]

\* Lines 120-131 without the os.Mkdir.
EnsureChunksDirNoMkdir(fs, dst, fault) ==
    IF fault = "stat"
    THEN [err |-> Wrap(ErrIO, "stat"), fs |-> fs]
    ELSE [err |-> NoErr, fs |-> fs]

\* Lines 120-131: os.Stat of the chunks directory, os.Mkdir when it does
\* not exist: [err, fs].  fault names the call that fails ("" for none).
EnsureChunksDir(fs, dst, fault) ==
    IF fault = "stat"
    THEN [err |-> Wrap(ErrIO, "stat"), fs |-> fs]
    ELSE IF ~Exists(fs, ChunksPath(dst))
    THEN IF fault = "mkdir" \/ ~IsDir(fs, dst)
         THEN [err |-> ErrIO, fs |-> fs]
         ELSE [err |-> NoErr,
               fs |-> [p \in DOMAIN fs \cup {ChunksPath(dst)} |->
                          IF p = ChunksPath(dst) THEN Dir ELSE fs[p]]]
    ELSE [err |-> NoErr, fs |-> fs]

\* Lines 116-118.
Download_DownloadDir(id, dst, fault, nFetched) ==
    /\ dl.pc = "idle"
    /\ dl.calls < MaxDownloads
    /\ nFetched < Len(Listing(bucket, <<IdString(id)>>)) \/ nFetched = 0
    /\ LET r == DownloadDir(fault, nFetched, bucket, <<IdString(id)>>, disk,
                            dst)
           d == [dl EXCEPT !.calls = @ + 1, !.id = id, !.dst = dst,
                           !.err = NoErr, !.fetchErr = r.err,
                           !.disk0 = disk, !.fetched = r.fs,
                           !.noChunks = Under(bucket, ChunksKey(id)) = {}]
       IN  /\ disk' = r.fs
           /\ dl' = IF r.err # NoErr
                    THEN [d EXCEPT !.pc = "done", !.err = r.err]
                    ELSE [d EXCEPT !.pc = "stat"]
    /\ UNCHANGED <<wr, rd, remoteVars, fin, dm>>

\* Lines 120-131.
Download_Stat(fault) ==
    /\ dl.pc = "stat"
    /\ LET r == EnsureChunksDir(disk, dl.dst, fault)
       IN  /\ disk' = r.fs
           /\ dl' = [dl EXCEPT !.pc = "done", !.err = r.err]
    /\ UNCHANGED <<wr, rd, remoteVars, fin, dm>>

\* The caller takes the result and may call again.
Download_Return ==
    /\ dl.pc = "done"
    /\ dl' = [DlIdle EXCEPT !.calls = dl.calls]
    /\ UNCHANGED <<disk, wr, rd, remoteVars, fin, dm>>

(***************************************************************************)
(* DownloadMeta(ctx, bkt, id) and Delete(ctx, bucket, id), called by a     *)
(* user of the bucket.                                                     *)
(***************************************************************************)
\* json.NewDecoder(rc).Decode(&m): the first JSON value of the stream is
\* decoded, what follows it is not read: [ok, m].
Decode(b) ==
    LET r == ParseValue(b, 1)
    IN  IF ~r.ok THEN [ok |-> FALSE, m |-> ZeroMeta]
        ELSE Unmarshal(SubSeq(b, 1, r.next - 1))

\* DownloadMeta with the version check of ReadMetaFile.
DownloadMetaOfVersion1(fault, bkt, id) ==
    IF fault THEN [err |-> Wrap(ErrBucket, "meta.json bkt get"), m |-> ZeroMeta]
    ELSE IF MetaKey(id) \notin DOMAIN bkt
    THEN [err |-> Wrap(ErrNotFound, "meta.json bkt get"), m |-> ZeroMeta]
    ELSE LET d == Decode(bkt[MetaKey(id)])
         IN  IF ~d.ok \/ d.m.Version # 1
             THEN [err |-> Wrap(ErrDecode, "decode meta.json"), m |-> ZeroMeta]
             ELSE [err |-> NoErr, m |-> d.m]

\* DownloadMeta(ctx, bkt, id): [err, m]
DownloadMeta(fault, bkt, id) ==
    IF fault THEN [err |-> Wrap(ErrBucket, "meta.json bkt get"), m |-> ZeroMeta]
    ELSE IF MetaKey(id) \notin DOMAIN bkt
    THEN [err |-> Wrap(ErrNotFound, "meta.json bkt get"), m |-> ZeroMeta]
    ELSE LET d == Decode(bkt[MetaKey(id)])
         IN  IF ~d.ok
             THEN [err |-> Wrap(ErrDecode, "decode meta.json"), m |-> ZeroMeta]
             ELSE [err |-> NoErr, m |-> d.m]

\* An Upload of block id that began on an empty prefix has not completed
\* its upload of meta.json, or an Upload of block id has returned an error
\* after its cleanUp deleted without error.
Unpublished(id) ==
    \E c \in DOMAIN up :
       /\ up[c].id = id
       /\ \/ /\ up[c].pc \in {"debugMeta", "chunks", "index", "meta", "cleanUp"}
             /\ up[c].empty0
          \/ /\ up[c].pc = "done"
             /\ up[c].ret # NoErr
             /\ \E i \in DOMAIN up[c].ops :
                   up[c].ops[i].op = "delete" /\ up[c].ops[i].err = NoErr

\* Lines 200-211.
DownloadMeta_Call(id, fault) ==
    /\ dm.pc = "idle"
    /\ dm.calls < MaxBucketCalls
    /\ LET r == DownloadMeta(fault, bucket, id)
       IN  dm' = [dm EXCEPT
                    !.pc = "done", !.calls = @ + 1, !.op = "DownloadMeta",
                    !.id = id, !.m = r.m, !.err = r.err,
                    !.dataUp = /\ IndexKey(id) \in DOMAIN bucket
                               /\ Under(bucket, ChunksKey(id)) # {},
                    !.found = ~fault /\ MetaKey(id) \in DOMAIN bucket,
                    !.b = IF ~fault /\ MetaKey(id) \in DOMAIN bucket
                          THEN bucket[MetaKey(id)] ELSE <<>>,
                    !.hidden = Unpublished(id)]
    /\ UNCHANGED <<localVars, remoteVars, fin, dl>>

\* Lines 195-197, called by a user of the bucket.
Delete_Call(id, done, fault, nDeleted) ==
    /\ dm.pc = "idle"
    /\ dm.calls < MaxBucketCalls
    /\ nDeleted < Len(Listing(bucket, <<IdString(id)>>)) \/ nDeleted = 0
    /\ LET r == Delete(done, fault, nDeleted, bucket, id)
       IN  /\ bucket' = r.bkt
           /\ dm' = [dm EXCEPT
                       !.pc = "done", !.calls = @ + 1, !.op = "Delete",
                       !.id = id, !.m = ZeroMeta, !.err = r.err,
                       !.bkt0 = bucket, !.found = FALSE, !.b = <<>>,
                       !.hidden = FALSE]
    /\ UNCHANGED <<localVars, up, fin, dl>>

\* The caller takes the result and may call again.
BucketCall_Return ==
    /\ dm.pc = "done"
    /\ dm' = [DmIdle EXCEPT !.calls = dm.calls]
    /\ UNCHANGED <<localVars, remoteVars, fin, dl>>

(***************************************************************************)
(* A consumer: Download, DownloadMeta and ReadMetaFile on the downloaded   *)
(* directory.                                                              *)
(***************************************************************************)
InitDownload ==
    /\ disk \in DstInputs
    /\ bucket \in BucketInputs
    /\ wr = WrIdle
    /\ rd = RdIdle
    /\ up = <<>>
    /\ fin = FinIdle
    /\ dl = DlIdle
    /\ dm = DmIdle

NextDownload ==
    \/ \E id \in {"01A", "01B"} : \E fault \in BOOLEAN :
       \E nFetched \in 0..Len(AllKeys) :
          Download_DownloadDir(id, BlockDir, fault, nFetched)
    \/ \E fault \in {"", "stat", "mkdir"} : Download_Stat(fault)
    \/ Download_Return
    \/ \E id \in {"01A", "01B"} : \E fault \in BOOLEAN :
          DownloadMeta_Call(id, fault)
    \/ BucketCall_Return
    \/ ReadMetaFile_Call
    \/ ReadMetaFile_ReadFile
    \/ ReadMetaFile_Unmarshal
    \/ ReadMetaFile_Return

SpecDownload == InitDownload /\ [][NextDownload]_vars

(***************************************************************************)
(* A user of the bucket: Delete and DownloadMeta.                          *)
(***************************************************************************)
InitDelete ==
    /\ disk = <<>>
    /\ bucket \in BucketInputs
    /\ wr = WrIdle
    /\ rd = RdIdle
    /\ up = <<>>
    /\ fin = FinIdle
    /\ dl = DlIdle
    /\ dm = DmIdle

NextDelete ==
    \/ \E id \in IdInputs : \E done, fault \in BOOLEAN :
       \E nDeleted \in 0..Len(AllKeys) : Delete_Call(id, done, fault, nDeleted)
    \/ \E id \in IdInputs : \E fault \in BOOLEAN : DownloadMeta_Call(id, fault)
    \/ BucketCall_Return

SpecDelete == InitDelete /\ [][NextDelete]_vars
(***************************************************************************)
(* A producer and a consumer: Upload calls, and DownloadMeta calls made    *)
(* while they run.                                                         *)
(***************************************************************************)
NextVisible ==
    \/ Next
    \/ \E fault \in BOOLEAN : DownloadMeta_Call("01A", fault)
    \/ BucketCall_Return

SpecVisible == Init /\ [][NextVisible]_vars
(***************************************************************************)
(* Two Upload calls on two block directories, 01A and 01B, interleaved.    *)
(***************************************************************************)
\* The directory each of the two calls uploads.
BdirOf == <<<<"01A">>, <<"01B">>>>

\* Both directories hold a block; 01A may lack its chunks directory.
InitTwo ==
    /\ \E nChunks \in {-1, 1} :
          disk = BlockDisk("01A", TRUE, EncodeMeta(SomeMeta), TRUE, nChunks)
                 @@ BlockDisk("01B", TRUE, EncodeMeta(SomeMeta), TRUE, 1)
    /\ wr = WrIdle
    /\ rd = RdIdle
    /\ bucket = <<>>
    /\ up = [c \in {1, 2} |-> UpIdle]
    /\ fin = FinIdle
    /\ dl = DlIdle
    /\ dm = DmIdle

\* Each of the two calls is made once; neither context is canceled.
NextTwo ==
    \/ \E c \in DOMAIN up : up[c].calls = 0 /\ Upload_Validate(c, BdirOf[c])
    \/ \E c \in DOMAIN up : \E fault \in BOOLEAN : Upload_DebugMeta(c, fault)
    \/ \E c \in DOMAIN up : \E fault \in BOOLEAN : Upload_Chunks(c, fault)
    \/ \E c \in DOMAIN up : \E fault \in BOOLEAN : Upload_Index(c, fault)
    \/ \E c \in DOMAIN up : \E fault \in BOOLEAN : Upload_Meta(c, fault)
    \/ \E c \in DOMAIN up : \E fault \in BOOLEAN :
       \E nDeleted \in 0..Len(AllKeys) : Upload_CleanUp(c, fault, nDeleted)
    \/ \E c \in DOMAIN up : Upload_Return(c)

SpecTwo == InitTwo /\ [][NextTwo]_vars


(***************************************************************************)
(* Properties of Upload (specification Spec).                              *)
(***************************************************************************)
\* Call c has returned.
Returned(c) == up[c].pc = "done"

\* The bucket operations of call c at the given steps that failed.
FailedOps(c, steps) ==
    {i \in 1..Len(up[c].ops) :
        up[c].ops[i].step \in steps /\ up[c].ops[i].err # NoErr}

BlockSteps == {"chunks", "index", "meta"}

\* The objects of the block of call c that the bucket holds.
BlockObjects(c) == Under(bucket, <<IdString(up[c].id)>>)

\* Every object of the block of call c is in the bucket.
Published(c) ==
    /\ MetaKey(up[c].id) \in DOMAIN bucket
    /\ IndexKey(up[c].id) \in DOMAIN bucket
    /\ DebugKey(up[c].id) \in DOMAIN bucket
    /\ \A i \in 1..Len(LocalChunks(disk, up[c].bdir)) :
          LET src == LocalChunks(disk, up[c].bdir)[i]
          IN  Join(ChunksKey(up[c].id), <<src[Len(src)]>>) \in DOMAIN bucket

\* The directory given to Upload is not an uploadable block, said without
\* the code's sequence of checks.
NotUploadable(fs, bdir) ==
    \/ bdir \notin DOMAIN fs
    \/ fs[bdir].kind # "dir"
    \/ bdir[Len(bdir)] \notin ULIDNames
    \/ MetaPath(bdir) \notin DOMAIN fs
    \/ fs[MetaPath(bdir)].kind # "file"
    \/ ~Unmarshal(fs[MetaPath(bdir)].data).ok
    \/ Unmarshal(fs[MetaPath(bdir)].data).m.Version # 1
    \/ Unmarshal(fs[MetaPath(bdir)].data).m.Labels.kv = {}

\* C1: an Upload that started on an empty remote prefix and returned
\* success never had meta.json in the bucket while the index or a chunk of
\* the block was missing there.
C1_MetaWrittenLast ==
    \A c \in DOMAIN up :
        (Returned(c) /\ up[c].ret = NoErr /\ up[c].empty0) => ~up[c].early

\* C2: when one of the four remote writes of an Upload failed, Upload
\* returns an error; when Upload returns success, meta.json, index, every
\* chunk and the debug copy are in the bucket.
C2_NoWriteErrorSwallowed ==
    \A c \in DOMAIN up :
        (Returned(c) /\ up[c].ret = NoErr) =>
            /\ FailedOps(c, {"debugMeta"} \cup BlockSteps) = {}
            /\ Published(c)

\* C3: when the chunks, index or meta.json upload failed and no delete
\* failed, then at return nothing is left under <id>/ and Upload returns
\* the step's error.
C3_CompensatingDelete ==
    \A c \in DOMAIN up :
        (/\ Returned(c)
         /\ FailedOps(c, BlockSteps) # {}
         /\ FailedOps(c, {"cleanUp"}) = {}) =>
            /\ BlockObjects(c) = {}
            /\ up[c].ret # NoErr
            /\ \E i \in FailedOps(c, BlockSteps) :
                  IsPrefix(up[c].ops[i].err,
                           SubSeq(up[c].ret, 2, Len(up[c].ret)))

\* C4: an Upload of a directory that is missing, not a directory, not named
\* as a block, or whose meta.json is missing, undecodable, of another
\* version or without labels returns an error, issues no bucket operation
\* and leaves the bucket as it was.
C4_ValidationBeforeRemote ==
    \A c \in DOMAIN up :
        (up[c].pc # "idle" /\ NotUploadable(disk, up[c].bdir)) =>
            /\ Returned(c)
            /\ up[c].ret # NoErr
            /\ up[c].ops = <<>>
            /\ bucket = up[c].bkt0

\* C4 witness: an Upload of a block whose meta.json decodes, has version 1
\* and an empty (not nil) labels map has returned an error.
C4_Witness ==
    \E c \in DOMAIN up :
        /\ Returned(c)
        /\ ReadMetaFile(disk, up[c].bdir).err = NoErr
        /\ ReadMetaFile(disk, up[c].bdir).m.Labels = MakeLabels({})
        /\ up[c].ret # NoErr

\* C5: the debug copy is the first remote write of an Upload, and when it
\* failed the Upload has returned an error and issued nothing else.
C5_DebugCopyGates ==
    \A c \in DOMAIN up :
        up[c].ops # <<>> =>
            /\ up[c].ops[1].key = DebugKey(up[c].id)
            /\ up[c].ops[1].err # NoErr =>
                  /\ Returned(c)
                  /\ up[c].ret # NoErr
                  /\ Len(up[c].ops) = 1
                  /\ BlockObjects(c) \subseteq DOMAIN up[c].bkt0

\* C8: when an Upload whose context was canceled has returned and one of
\* its block writes failed as canceled, it has issued the delete of <id>/
\* with the background context, and if that delete succeeded nothing is
\* left under <id>/.
C8_CleanupSurvivesCancel ==
    \A c \in DOMAIN up :
        (/\ Returned(c)
         /\ \E i \in FailedOps(c, BlockSteps) :
               up[c].ops[i].err = ErrCanceled) =>
            \E j \in 1..Len(up[c].ops) :
                /\ up[c].ops[j].op = "delete"
                /\ up[c].ops[j].ctx = ContextBackground
                /\ up[c].ops[j].err = NoErr => BlockObjects(c) = {}

\* C9: when the compensating delete of an Upload failed, the error Upload
\* returns is the warning of a partial block wrapped around the error of
\* the upload step that failed; it is neither that error alone nor nil.
C9_FailedCleanupReported ==
    \A c \in DOMAIN up :
        (Returned(c) /\ FailedOps(c, {"cleanUp"}) # {}) =>
            /\ up[c].ret # NoErr
            /\ up[c].ret[1] = CleanUpWarning
            /\ \E i \in FailedOps(c, BlockSteps) :
                  Tail(Tail(up[c].ret)) = up[c].ops[i].err

\* C9 witness: an upload of a chunk failed, the delete failed too, and an
\* object of the block is left in the bucket.
C9_Witness ==
    \E c \in DOMAIN up :
        /\ Returned(c)
        /\ FailedOps(c, {"chunks"}) # {}
        /\ FailedOps(c, {"cleanUp"}) # {}
        /\ BlockObjects(c) # {}


(***************************************************************************)
(* Properties of the metadata file (specification SpecMeta).               *)
(***************************************************************************)
\* meta.json is as it was when the current WriteMetaFile call began.
MetaFileAsBefore ==
    /\ IsFile(disk, MetaPath(BlockDir)) = wr.hadOld
    /\ wr.hadOld => disk[MetaPath(BlockDir)].data = wr.old

\* The labels of m hold no byte that is not valid UTF-8.
ValidUTF8(m) ==
    \A e \in m.Labels.kv : \A i \in 1..Len(e[2]) : e[2][i] # BadByte

\* C6: when WriteMetaFile is interrupted before os.Rename has run,
\* meta.json holds what it held before the call and is absent only if it
\* was absent before.
C6_CrashAtomicWrite ==
    (wr.pc = "crashed" /\ wr.crashedAt \in {"encode", "close", "remove", "rename"})
        => MetaFileAsBefore

\* C7: a ReadMetaFile called on a directory with a valid meta.json reads
\* either the bytes that were there when it was called or the complete
\* encoding of a metadata value written while it ran.
C7_ReaderSeesOldOrNew ==
    (rd.pc \in {"unmarshal", "done"} /\ rd.valid0) =>
        rd.b \in {rd.old} \cup {EncodeMeta(m) : m \in rd.news}

\* C10 as stated: a ReadMetaFile that follows a successful WriteMetaFile of
\* any metadata value succeeds and returns that value.
C10_RoundTripOfAnyMeta ==
    (rd.pc = "done" /\ rd.afterWrite) => (rd.err = NoErr /\ rd.m = wr.m)

\* C10 amended: a ReadMetaFile that follows a successful WriteMetaFile of a
\* metadata value of version 1 whose label values are valid UTF-8 succeeds
\* and returns that value.
C10_RoundTrip ==
    (rd.pc = "done" /\ rd.afterWrite /\ wr.m.Version = 1 /\ ValidUTF8(wr.m))
        => (rd.err = NoErr /\ rd.m = wr.m)

\* C10 witness: a version 1 value with two labels and a two-digit
\* resolution was written and read back.
C10_Witness ==
    /\ rd.pc = "done"
    /\ rd.afterWrite
    /\ wr.m.Version = 1
    /\ LabelsLen(wr.m.Labels) = 2
    /\ wr.m.Resolution >= 10
    /\ rd.m = wr.m

(***************************************************************************)
(* Properties of Finalize (specification SpecFinalize).                    *)
(***************************************************************************)
\* The metadata meta.json holds now: [ok, m].
MetaOnDisk == Unmarshal(ReadFile(disk, MetaPath(BlockDir)).b)

\* The call that has just returned followed a successful call with the
\* same arguments and no filesystem call of it was made to fail.
SecondOfTwo ==
    /\ fin.pc = "done"
    /\ fin.calls >= 2
    /\ fin.prevOK
    /\ fin.args = fin.prevArgs
    /\ ~fin.faulted

\* C11: a Finalize that follows a successful Finalize with the same labels,
\* resolution and source metadata succeeds too, and leaves meta.json with
\* the bytes the first call left.
C11_FinalizeIdempotent ==
    SecondOfTwo =>
        /\ fin.err = NoErr
        /\ ReadFile(disk, MetaPath(BlockDir)).b = fin.prevBytes

\* What C12 says of a Finalize that returned without error: meta.json
\* decodes to the metadata read at the start with the labels and the
\* resolution of the call, the compaction level of the source metadata if
\* one was given, and everything else as it was; the returned value is that
\* metadata; there is no tombstones entry.
FinalizePostcondition ==
    LET old == Unmarshal(fin.b0).m
        now == MetaOnDisk
    IN  /\ now.ok
        /\ now.m.Labels = fin.args[1]
        /\ now.m.Resolution = fin.args[2]
        /\ now.m.Level = IF fin.args[3] # <<>> THEN fin.args[3][1].Level
                         ELSE old.Level
        /\ now.m.Version = old.Version
        /\ now.m.MinTime = old.MinTime
        /\ fin.ret = <<now.m>>
        /\ ~Exists(disk, TombstonesPath(BlockDir))

\* C12 as stated: every Finalize that returns without error has
\* established the postcondition, whatever the external labels.
C12_FinalizePostconditionAnyLabels ==
    (fin.pc = "done" /\ fin.err = NoErr) => FinalizePostcondition

\* C12 amended: a Finalize that returns without error and was given
\* external labels of valid UTF-8 has established the postcondition.
C12_FinalizePostcondition ==
    (fin.pc = "done" /\ fin.err = NoErr
        /\ ValidUTF8([Labels |-> fin.args[1]]))
        => FinalizePostcondition

\* C12 witness: a Finalize given two labels, a two-digit resolution and a
\* source metadata returned without error on a block whose compaction level
\* differed from the source's.
C12_Witness ==
    /\ fin.pc = "done"
    /\ fin.err = NoErr
    /\ LabelsLen(fin.args[1]) = 2
    /\ fin.args[2] >= 10
    /\ fin.args[3] # <<>>
    /\ Unmarshal(fin.b0).m.Level # fin.args[3][1].Level
    /\ Unmarshal(fin.b0).m.Labels # fin.args[1]

(***************************************************************************)
(* Properties of Delete (specification SpecDelete).                        *)
(***************************************************************************)
\* C13: a Delete of any block identifier, the zero identifier included,
\* passes a prefix that is not empty, removes no object whose key is not
\* under that prefix, and changes the content of no object.
C13_DeleteScoped ==
    (dm.pc = "done" /\ dm.op = "Delete") =>
        /\ IdString(dm.id) # ""
        /\ DOMAIN bucket \subseteq DOMAIN dm.bkt0
        /\ \A k \in DOMAIN dm.bkt0 :
              ~IsPrefix(<<IdString(dm.id)>>, k) => k \in DOMAIN bucket
        /\ \A k \in DOMAIN bucket : bucket[k] = dm.bkt0[k]

\* C13 witness: a Delete of the zero identifier removed the objects under
\* the prefix of 26 zeros and left block 01A, block 01B and the debug copy
\* of 01A's metadata.
C13_Witness ==
    /\ dm.pc = "done"
    /\ dm.op = "Delete"
    /\ dm.id = ZeroULID
    /\ dm.err = NoErr
    /\ Under(dm.bkt0, <<IdString(ZeroULID)>>) # {}
    /\ Under(bucket, <<IdString(ZeroULID)>>) = {}
    /\ {IndexKey("01A"), MetaKey("01B"), DebugKey("01A")}
          \subseteq DOMAIN bucket

SameBytes ==
    /\ rd.pc = "done"
    /\ rd.found
    /\ dm.pc = "done"
    /\ dm.op = "DownloadMeta"
    /\ dm.found
    /\ rd.b = dm.b

\* The results of DownloadMeta and ReadMetaFile on bytes b that C20
\* states: on a JSON document of a version other than 1 DownloadMeta
\* returns the metadata and ReadMetaFile the version error; on one of
\* version 1 both return the metadata; on anything else both return an
\* error.
ResultsOn(b) ==
    LET u == Unmarshal(b)
    IN  IF u.ok /\ u.m.Version # 1
        THEN /\ dm.err = NoErr /\ dm.m = u.m
             /\ rd.err = ErrVersion /\ rd.m = ZeroMeta
        ELSE IF u.ok
        THEN /\ dm.err = NoErr /\ dm.m = u.m
             /\ rd.err = NoErr /\ rd.m = u.m
        ELSE /\ dm.err # NoErr /\ dm.m = ZeroMeta
             /\ rd.err # NoErr /\ rd.m = ZeroMeta

\* b is a JSON value followed by more tokens.
HasTrailingData(b) ==
    ParseValue(b, 1).ok /\ ParseValue(b, 1).next <= Len(b)

\* C20 as stated: on the same bytes DownloadMeta and ReadMetaFile differ
\* in the version check only.
C20_DifferInVersionCheckOnly ==
    SameBytes => ResultsOn(rd.b)

\* C20 amended: on the same bytes, not a JSON value followed by more data,
\* DownloadMeta and ReadMetaFile differ in the version check only.
C20_DifferInVersionCheck ==
    (SameBytes /\ ~HasTrailingData(rd.b)) => ResultsOn(rd.b)

\* C20 witness: both read a meta.json of version 2; DownloadMeta returned
\* its metadata, ReadMetaFile the version error.
C20_Witness ==
    /\ SameBytes
    /\ Unmarshal(rd.b).ok
    /\ Unmarshal(rd.b).m.Version = 2
    /\ dm.err = NoErr
    /\ dm.m.Version = 2
    /\ rd.err = ErrVersion

(***************************************************************************)
(* Properties of DownloadMeta during Upload (specification SpecVisible).   *)
(***************************************************************************)
\* C15: a DownloadMeta of a block whose Upload began on an empty prefix and
\* has not completed its upload of meta.json, or whose Upload failed and
\* cleaned up without error, finds no meta.json: it returns no metadata
\* and the not-found error of bkt.Get (or the error of a Get that itself
\* failed).
C15_InProgressNotVisible ==
    (dm.pc = "done" /\ dm.op = "DownloadMeta" /\ dm.hidden) =>
        /\ ~dm.found
        /\ dm.m = ZeroMeta
        /\ dm.err \in {Wrap(ErrNotFound, "meta.json bkt get"),
                       Wrap(ErrBucket, "meta.json bkt get")}

\* C15 witness: a DownloadMeta made while the index and a chunk of the
\* block were already in the bucket returned the not-found error.
C15_Witness ==
    /\ dm.pc = "done"
    /\ dm.op = "DownloadMeta"
    /\ dm.hidden
    /\ dm.dataUp
    /\ dm.err = Wrap(ErrNotFound, "meta.json bkt get")

(***************************************************************************)
(* Properties of two Upload calls on different blocks (specification       *)
(* SpecTwo).                                                               *)
(***************************************************************************)
\* The keys of the block that call c uploads: those under <id>/ and
\* debug/metas/<id>.json.
OwnKeys(c) ==
    LET id == BdirOf[c][1]
    IN  {AllKeys[i] : i \in {j \in DOMAIN AllKeys :
                               \/ IsPrefix(<<IdString(id)>>, AllKeys[j])
                               \/ AllKeys[j] = DebugKey(id)}}

\* A step that is not a step of call c leaves the objects at the keys of
\* c's block as they are.
OthersLeaveAlone(c) ==
    up'[c] = up[c] =>
        \A k \in OwnKeys(c) :
           /\ (k \in DOMAIN bucket') = (k \in DOMAIN bucket)
           /\ k \in DOMAIN bucket => bucket'[k] = bucket[k]

\* C16: of two Upload calls on different blocks, interleaved in any way
\* and with any failures, each writes and deletes only under its block's
\* prefix and at its block's debug key: no step of the one changes an
\* object of the other's block.
C16_DifferentBlocksIndependent ==
    [][\A c \in DOMAIN up : OthersLeaveAlone(c)]_vars

\* C16 witness: the Upload of 01A failed and its cleanUp deleted what it
\* had written, the Upload of 01B, which ran meanwhile, returned nil and
\* its meta.json, index and chunk are in the bucket.
C16_Witness ==
    /\ up[1].pc = "done"
    /\ up[1].ret # NoErr
    /\ \E i \in DOMAIN up[1].ops :
          up[1].ops[i].op = "delete" /\ up[1].ops[i].err = NoErr
    /\ \E i \in DOMAIN up[1].ops :
          up[1].ops[i].op = "upload" /\ up[1].ops[i].err = NoErr
    /\ up[2].pc = "done"
    /\ up[2].ret = NoErr
    /\ Under(bucket, <<IdString("01A")>>) = {}
    /\ {MetaKey("01B"), IndexKey("01B"), DebugKey("01B")}
          \subseteq DOMAIN bucket
    /\ Under(bucket, ChunksKey("01B")) # {}

(***************************************************************************)
(* Properties of ReadMetaFile (specification SpecMeta).                    *)
(***************************************************************************)
\* What a returned ReadMetaFile holds: metadata exactly when meta.json was
\* read, decoded and of version 1, and then the decoded metadata; no
\* metadata with an error; the version error exactly when the file decoded
\* with another version.
ReadMetaFileResult ==
    rd.pc = "done" =>
        LET u == Unmarshal(rd.b)
        IN  /\ (rd.err = NoErr) = (rd.found /\ u.ok /\ u.m.Version = 1)
            /\ rd.err = NoErr => rd.m = u.m
            /\ rd.err # NoErr => rd.m = ZeroMeta
            /\ (rd.err = ErrVersion) = (rd.found /\ u.ok /\ u.m.Version # 1)
            /\ rd.found /\ ~u.ok => rd.err = ErrDecode

\* A step of the reader (one that is no step of the writer) leaves the
\* filesystem as it is.
ReaderLeavesDisk == (rd' # rd /\ wr' = wr) => disk' = disk

\* C17: ReadMetaFile returns metadata only when meta.json exists, decodes
\* and has version 1; a missing file, an undecodable file and another
\* version each give an error and no metadata, the version error being
\* told from the others; and ReadMetaFile changes nothing in the directory.
C17_ReadMetaFileChecks ==
    []ReadMetaFileResult /\ [][ReaderLeavesDisk]_vars

\* C17 witness: ReadMetaFile read a meta.json that decodes with version 2
\* and returned the version error.
C17_Witness ==
    /\ rd.pc = "done"
    /\ rd.found
    /\ Unmarshal(rd.b).ok
    /\ Unmarshal(rd.b).m.Version = 2
    /\ rd.err = ErrVersion
    /\ rd.m = ZeroMeta

(***************************************************************************)
(* Properties of repeated Upload calls (specification Spec).               *)
(***************************************************************************)
\* The objects of the block of call c that were in the bucket when the
\* call began, if its meta.json was among them (the block was published).
PublishedBefore(c) ==
    IF MetaKey(up[c].id) \in DOMAIN up[c].bkt0
    THEN Under(up[c].bkt0, <<IdString(up[c].id)>>)
    ELSE {}

\* C18: an Upload for a block that is already published, whether it
\* succeeds or fails, leaves every object of the published block in the
\* bucket.
C18_PublishedStaysIntact ==
    \A c \in DOMAIN up :
        Returned(c) => PublishedBefore(c) \subseteq DOMAIN bucket

\* Call c has uploaded <id>/meta.json without error.
MetaUploaded(c) ==
    \E i \in DOMAIN up[c].ops :
       /\ up[c].ops[i].step = "meta"
       /\ up[c].ops[i].err = NoErr

\* The meta.json an Upload has put in the bucket decodes, declares version
\* 1 and has at least one label.
UploadedMetaValid ==
    \A c \in DOMAIN up :
        MetaUploaded(c) =>
            LET u == Unmarshal(bucket[MetaKey(up[c].id)])
            IN  /\ u.ok
                /\ u.m.Version = 1
                /\ ~u.m.Labels.isNil
                /\ LabelsLen(u.m.Labels) > 0

\* C19: every meta.json that Upload puts at <id>/meta.json declares
\* version 1 and labels that are not empty, the local directory being
\* changed by nobody; and no step of Upload changes the local directory.
C19_UploadedMetaValid ==
    []UploadedMetaValid /\ [][disk' = disk]_vars

\* C19 witness: an Upload has returned nil after putting a meta.json with
\* two labels in the bucket.
C19_Witness ==
    \E c \in DOMAIN up :
        /\ Returned(c)
        /\ up[c].ret = NoErr
        /\ MetaUploaded(c)
        /\ LabelsLen(Unmarshal(bucket[MetaKey(up[c].id)]).m.Labels) = 2

====
